---- MODULE Spec2Model ----
(***************************************************************************)
(* The packet protocol engine of the fingerprint sensor driver             *)
(* (source/Fingerprint.cpp): the interrupt-fed receive ring buffer, the    *)
(* serializer writeStructuredPacket, the blocking parser                   *)
(* getStructuredPacket and the command methods built on them.              *)
(*                                                                         *)
(* Bytes are naturals 0..255; uint16_t values are kept modulo 65536.       *)
(* Fingerprint.h is not among the sources: the protocol constants it       *)
(* declares carry the values of the sensor's protocol (see MODEL_MAP).     *)
(***************************************************************************)
EXTENDS Naturals, Sequences, FiniteSets, TLC

(* ---------------------------------------------------------------- bounds *)

\* sizeof(buffUART), scaled down so that the cursors reach the end of the array.
BuffSize == 4

\* The timeout argument of getStructuredPacket (number of 1 ms polls), scaled down.
TimeoutTicks == 2

\* Largest payload length / declared length value the inputs are drawn from.
MaxLen == 3

\* Number of command calls in a row on one object.
MaxCalls == 2

\* Number of payload bytes after which the writer's loop is no longer followed.
EmitCap == 260

(* ------------------------------------------------- constants of the header *)

FINGERPRINT_STARTCODE == 61185
FINGERPRINT_OK == 0
FINGERPRINT_PACKETRECIEVEERR == 1
FINGERPRINT_BADPACKET == 254
FINGERPRINT_TIMEOUT == 255
FINGERPRINT_COMMANDPACKET == 1
FINGERPRINT_ACKPACKET == 7
FINGERPRINT_NOTFOUND == 9
FINGERPRINT_NOFINGER == 2

\* Capacity of Fingerprint_Packet::data.
DataCap == 64

\* "No value yet" for a return value, and the value of an object that was never
\* written: two naturals that are no uint8_t or uint16_t value.
None == 65535 + 1
Uninit == 65535 + 2

StartHi == FINGERPRINT_STARTCODE \div 256
StartLo == FINGERPRINT_STARTCODE % 256

VARIABLES
  buffUART,   \* the receive array, index 0..BuffSize-1
  oob,        \* the byte after the array, buffUART[sizeof(buffUART)]: last value stored there
  pe,         \* write cursor (offset from buffUART), moved by receiveUART
  pl,         \* read cursor (offset from buffUART), moved by readUARTbuff
  line,       \* bytes the peer has put on the line and that have not arrived yet
  pc,         \* position of the main thread
  packet,     \* the Fingerprint_Packet on the stack of the running command
  tx,         \* bytes written to the transport, in order
  wr,         \* locals of writeStructuredPacket: i, sum, wire_length, dataBuffer
  rd,         \* locals of getStructuredPacket: idx, timer, timeout
  ret,        \* return value of getStructuredPacket
  cmd,        \* the command method running, with its arguments
  result,     \* return value of the command method
  sess,       \* the session-state fields of the Fingerprint object
  hist,       \* history: bytes pushed, bytes read, ring overflow, the packet given to the writer
  app         \* the application: position of main, fingerON, the interrupt handler, the keypad code

vars == <<buffUART, oob, pe, pl, line, pc, packet, tx, wr, rd, ret, cmd, result, sess, hist, app>>

ringVars == <<buffUART, oob, pe, pl>>
cmdVars == <<cmd, result, sess>>

(* ----------------------------------------------------------- ring buffer *)

\* A cursor that wraps when it reaches the end of the array.
AdvanceInArray(p) == IF p + 1 >= BuffSize THEN 0 ELSE p + 1

\* pe++ / pl++ followed by "if (p > buffUART+sizeof(buffUART)) p = buffUART".
Advance(p) == IF p + 1 > BuffSize THEN 0 ELSE p + 1

\* Values a read of *pl can produce. Offset BuffSize is one past the array: the
\* access is out of bounds, the byte belongs to whatever follows buffUART in the
\* object, so the read has the value last stored there or any other byte.
OobClobber == {0, 255}

ReadVals == IF pl < BuffSize THEN {buffUART[pl]} ELSE {oob} \cup OobClobber

\* The history after a byte is pushed or read (kept only while hist.on).
NotePush(c) ==
  IF hist.on
    THEN [hist EXCEPT !.pushed = Append(@, c), !.overflow = @ \/ (Advance(pe) = pl)]
    ELSE hist

NoteRead(c, overrun) ==
  IF hist.on
    THEN [hist EXCEPT !.popped = Append(@, c), !.dataOverrun = @ \/ overrun]
    ELSE hist

\* A ring that drops its oldest byte when full: the push moves the read cursor too.
receiveUARTOverwrite ==
  /\ line # <<>>
  /\ LET c == Head(line) IN
       /\ IF pe < BuffSize
            THEN buffUART' = [buffUART EXCEPT ![pe] = c] /\ oob' = oob
            ELSE buffUART' = buffUART /\ oob' = c
       /\ pe' = Advance(pe)
       /\ pl' = IF Advance(pe) = pl THEN Advance(pl) ELSE pl
       /\ hist' = NotePush(c)
  /\ line' = Tail(line)
  /\ UNCHANGED <<app, pc, packet, tx, wr, rd, ret, cmd, result, sess>>

\* void Fingerprint::receiveUART(void): the receive interrupt, one byte of the line.
receiveUART ==
  /\ line # <<>>
  /\ LET c == Head(line) IN
       /\ IF pe < BuffSize
            THEN buffUART' = [buffUART EXCEPT ![pe] = c] /\ oob' = oob
            ELSE buffUART' = buffUART /\ oob' = c
       /\ pe' = Advance(pe)
       /\ hist' = NotePush(c)
  /\ line' = Tail(line)
  /\ UNCHANGED <<app, pl, pc, packet, tx, wr, rd, ret, cmd, result, sess>>

\* uint8_t Fingerprint::readUARTbuff(void), called on its own (no parser running).
readUARTbuff ==
  /\ pc = "pop"
  /\ Len(hist.popped) < Len(hist.pushed)
  /\ line = <<>>
  /\ \E c \in ReadVals : hist' = NoteRead(c, FALSE)
  /\ pl' = Advance(pl)
  /\ UNCHANGED <<app, buffUART, oob, pe, line, pc, packet, tx, wr, rd, ret, cmd, result, sess>>

(* ------------------------------------------------------------ the parser *)

\* packet->data[k] = c, for an index inside the array.
SetData(d, k, c) == IF k < Len(d) THEN [d EXCEPT ![k + 1] = c] ELSE Append(d, c)

DataAt(d, k) == IF k < Len(d) THEN d[k + 1] ELSE Uninit

\* A wait loop that sleeps and does not count.
PollEmptySleepOnly ==
  /\ pc = "recv"
  /\ pl = pe
  /\ UNCHANGED vars

\* The wait loop of getStructuredPacket with the ring empty: sleep 1 ms, timer++,
\* and return FINGERPRINT_TIMEOUT once timer >= timeout.
PollEmpty ==
  /\ pc = "recv"
  /\ pl = pe
  /\ LET t == (rd.timer + 1) % 65536 IN
       /\ rd' = [rd EXCEPT !.timer = t]
       /\ IF t >= rd.timeout
            THEN pc' = "parsed" /\ ret' = FINGERPRINT_TIMEOUT
            ELSE pc' = pc /\ ret' = ret
  /\ UNCHANGED <<app, ringVars, line, packet, tx, wr, cmdVars, hist>>

\* The switch (idx) of getStructuredPacket on the byte c just read, as
\* [np: the packet after the byte, done: the value returned or None, step: idx++ ran].
\* start_code |= byte and length |= byte act on a value whose low byte is 0.

\* A start code whose low byte does not match is not rejected: the scan goes on.
SwitchStartNoReject(c) ==
  IF rd.idx = 0 THEN
    IF c # StartHi
      THEN [np |-> packet, done |-> None, step |-> FALSE]
      ELSE [np |-> [packet EXCEPT !.start_code = c * 256], done |-> None, step |-> TRUE]
  ELSE
    [np |-> [packet EXCEPT !.start_code = (packet.start_code \div 256) * 256 + c],
     done |-> None, step |-> TRUE]

\* case 0 and case 1: the start code.
SwitchStart(c) ==
  IF rd.idx = 0 THEN
    IF c # StartHi
      THEN [np |-> packet, done |-> None, step |-> FALSE]
      ELSE [np |-> [packet EXCEPT !.start_code = c * 256], done |-> None, step |-> TRUE]
  ELSE
    LET sc == (packet.start_code \div 256) * 256 + c IN
    [np |-> [packet EXCEPT !.start_code = sc],
     done |-> IF sc # FINGERPRINT_STARTCODE THEN FINGERPRINT_BADPACKET ELSE None,
     step |-> sc = FINGERPRINT_STARTCODE]

\* The low byte of the length does not advance the state.
SwitchHeaderStall(c) ==
  LET idx == rd.idx IN
  [np |-> IF idx \in 2..5 THEN [packet EXCEPT !.address[idx - 1] = c]
          ELSE IF idx = 6 THEN [packet EXCEPT !.type = c]
          ELSE IF idx = 7 THEN [packet EXCEPT !.length = c * 256]
          ELSE [packet EXCEPT !.length = (packet.length \div 256) * 256 + c],
   done |-> None,
   step |-> idx # 8]

\* case 2 .. case 8: address, type, length.
SwitchHeader(c) ==
  LET idx == rd.idx IN
  [np |-> IF idx \in 2..5 THEN [packet EXCEPT !.address[idx - 1] = c]
          ELSE IF idx = 6 THEN [packet EXCEPT !.type = c]
          ELSE IF idx = 7 THEN [packet EXCEPT !.length = c * 256]
          ELSE [packet EXCEPT !.length = (packet.length \div 256) * 256 + c],
   done |-> None,
   step |-> TRUE]

\* The end test one byte early.
SwitchDataEarly(c) ==
  LET idx == rd.idx IN
  [np |-> IF idx - 9 < DataCap
            THEN [packet EXCEPT !.data = SetData(@, idx - 9, c)]
            ELSE packet,
   done |-> IF idx - 7 = packet.length THEN FINGERPRINT_OK ELSE None,
   step |-> idx - 7 # packet.length]

\* The two checksum bytes are counted but not stored.
SwitchDataStrip(c) ==
  LET idx == rd.idx IN
  [np |-> IF idx - 9 < DataCap /\ idx - 9 + 2 < packet.length
            THEN [packet EXCEPT !.data = SetData(@, idx - 9, c)]
            ELSE packet,
   done |-> IF idx - 8 = packet.length THEN FINGERPRINT_OK ELSE None,
   step |-> idx - 8 # packet.length]

\* default: packet->data[idx - 9] = byte; return FINGERPRINT_OK when
\* (idx - 8) == packet->length. A store at or past the capacity of data is out
\* of bounds: it leaves data as it is and is recorded in hist.dataOverrun.
SwitchData(c) ==
  LET idx == rd.idx IN
  [np |-> IF idx - 9 < DataCap
            THEN [packet EXCEPT !.data = SetData(@, idx - 9, c)]
            ELSE packet,
   done |-> IF idx - 8 = packet.length THEN FINGERPRINT_OK ELSE None,
   step |-> idx - 8 # packet.length]

Switch(c) ==
  IF rd.idx <= 1 THEN SwitchStart(c)
  ELSE IF rd.idx <= 8 THEN SwitchHeader(c)
  ELSE SwitchData(c)

\* A byte read restarts the wait: the budget would be per byte.
ReadByteRestartsTimer ==
  /\ pc = "recv"
  /\ pl # pe
  /\ \E c \in ReadVals :
       LET s == Switch(c) IN
         /\ packet' = s.np
         /\ rd' = [rd EXCEPT !.idx = IF s.step THEN (@ + 1) % 65536 ELSE @, !.timer = 0]
         /\ IF s.done # None
              THEN pc' = "parsed" /\ ret' = s.done
              ELSE pc' = pc /\ ret' = ret
         /\ hist' = NoteRead(c, rd.idx >= 9 + DataCap)
  /\ pl' = Advance(pl)
  /\ UNCHANGED <<app, buffUART, oob, pe, line, tx, wr, cmdVars>>

\* One turn of the while (true) of getStructuredPacket with a byte in the ring:
\* byte = readUARTbuff(), the switch, idx++.
ReadByte ==
  /\ pc = "recv"
  /\ pl # pe
  /\ \E c \in ReadVals :
       LET s == Switch(c) IN
         /\ packet' = s.np
         /\ rd' = [rd EXCEPT !.idx = IF s.step THEN (@ + 1) % 65536 ELSE @]
         /\ IF s.done # None
              THEN pc' = "parsed" /\ ret' = s.done
              ELSE pc' = pc /\ ret' = ret
         /\ hist' = NoteRead(c, rd.idx >= 9 + DataCap)
  /\ pl' = Advance(pl)
  /\ UNCHANGED <<app, buffUART, oob, pe, line, tx, wr, cmdVars>>

(* ------------------------------------------------------------ the packet *)

\* Fingerprint_Packet(type, length, data): start code and broadcast address set,
\* the first min(length, capacity) bytes of data copied, the rest never written.
NewPacket(type, length, data) ==
  [start_code |-> FINGERPRINT_STARTCODE,
   address |-> <<255, 255, 255, 255>>,
   type |-> type,
   length |-> length,
   data |-> SubSeq(data, 1, IF length < DataCap THEN length ELSE DataCap)]

\* The session-state fields after Fingerprint::Fingerprint; fingerID, confidence
\* and templateCount are not written by the constructor. device_addr (32 bits)
\* is kept as its four bytes, high byte first.
NewSession ==
  [status_reg |-> 0, system_id |-> 0, capacity |-> 64, security_level |-> 0,
   device_addr |-> <<255, 255, 255, 255>>, packet_len |-> 64, baud_rate |-> 57600,
   thePassword |-> 16909060, theAddress |-> <<255, 255, 255, 255>>,
   fingerID |-> Uninit, confidence |-> Uninit, templateCount |-> Uninit]

NoHist ==
  [on |-> TRUE, pushed |-> <<>>, popped |-> <<>>, overflow |-> FALSE, dataOverrun |-> FALSE,
   orig |-> NewPacket(0, 0, <<>>), sess0 |-> NewSession]

\* No command method is running.
NoCommand == [name |-> "none", a |-> <<>>]

\* The entry of getStructuredPacket(packet, timeout): idx = 0, timer = 0.
ParserEntry == [idx |-> 0, timer |-> 0, timeout |-> TimeoutTicks]

NoWriter == [i |-> 0, sum |-> 0, wire_length |-> 0, dataBuffer |-> <<>>]

\* The application before main runs: the globals as initialised (fingerON = false,
\* id = 1), no handler attached to the finger-detect pin, no request sent.
AppStart ==
  [at |-> "boot", fingerON |-> FALSE, attached |-> FALSE,
   code |-> <<"", "", "", "", "">>, indice |-> 0, stored |-> None, p |-> None, c |-> 1,
   matched |-> FALSE, found |-> None, post |-> [path |-> "none", footprint |-> None]]

\* The ring after construction (pe = pl = buffUART) and any number of bytes
\* received and read since: the cursors rest together at any offset they take.
RingAtRest ==
  /\ buffUART = [k \in 0..(BuffSize - 1) |-> 0]
  /\ oob = 0
  /\ pe \in 0..BuffSize
  /\ pl = pe

Prefixes(S) == UNION {{SubSeq(f, 1, k) : k \in 0..Len(f)} : f \in S}

(* ------------------------------------------------------ the wire format *)

RECURSIVE SumSeq(_)
SumSeq(d) == IF d = <<>> THEN 0 ELSE Head(d) + SumSeq(Tail(d))

\* What the wire format asks of a sender, for the peer's frames and for the claims.
\* The checksum of a packet: the bytes of length + 2, the type and the payload
\* summed, modulo 65536.
Checksum(p) ==
  (((p.length + 2) \div 256) + ((p.length + 2) % 256) + p.type + SumSeq(p.data)) % 65536

\* The frame of a packet, byte by byte.
Frame(p) ==
  <<p.start_code \div 256, p.start_code % 256>> \o p.address
    \o <<p.type, (p.length + 2) \div 256, (p.length + 2) % 256>> \o p.data
    \o <<Checksum(p) \div 256, Checksum(p) % 256>>

(* ------------------------------------------------------- the serializer *)

\* Values a read of a uint8_t can produce: its value, or any byte when the
\* object was never written.
UninitVals == {0, 255}

ByteOf(v) == IF v = Uninit THEN UninitVals ELSE {v}

\* The length without the two checksum bytes.
WireLengthBare(length) == length

\* uint16_t wire_length = packet.length + 2.
WireLength(length) == (length + 2) % 65536

\* A checksum kept in one byte.
SumAddNarrow(sum, b) == (sum + b) % 256

\* sum += packet.data[i], on a uint16_t.
SumAdd(sum, b) == (sum + b) % 65536

\* The nine bytes of buffer[], the first write; sum starts as the two bytes of
\* wire_length plus the type.
WriteHeader ==
  /\ pc = "wr_hdr"
  /\ LET wl == WireLength(packet.length) IN
       /\ tx' = tx \o <<packet.start_code \div 256, packet.start_code % 256>>
                   \o packet.address
                   \o <<packet.type, wl \div 256, wl % 256>>
       /\ wr' = [i |-> 0, sum |-> SumAdd(SumAdd(wl \div 256, wl % 256), packet.type),
                 wire_length |-> wl, dataBuffer |-> <<>>]
  /\ pc' = "wr_loop"
  /\ UNCHANGED <<app, ringVars, line, packet, rd, ret, cmdVars, hist>>

\* One test of "i < packet.length" of the for loop, i a uint8_t, and the body.
WriteLoop ==
  /\ pc = "wr_loop"
  /\ IF wr.i < packet.length
       THEN /\ \E b \in ByteOf(DataAt(packet.data, wr.i)) :
                 wr' = [wr EXCEPT !.dataBuffer = Append(@, b),
                                  !.sum = SumAdd(@, b),
                                  !.i = (@ + 1) % 256]
            /\ pc' = pc
       ELSE /\ wr' = wr
            /\ pc' = "wr_sum"
  /\ UNCHANGED <<app, ringVars, line, packet, tx, rd, ret, cmdVars, hist>>

\* After the loop: the write of dataBuffer when it is not empty, then the write
\* of the two bytes of sum.
WriteTail ==
  /\ pc = "wr_sum"
  /\ tx' = tx \o wr.dataBuffer \o <<wr.sum \div 256, wr.sum % 256>>
  /\ pc' = "wr_done"
  /\ UNCHANGED <<app, ringVars, line, packet, wr, rd, ret, cmdVars, hist>>

(* ------------------------------------ the serializer's output parsed back *)

PayloadBytes == {1, 255}

RECURSIVE Payloads(_)
Payloads(n) ==
  IF n = 0 THEN {<<>>}
  ELSE LET S == Payloads(n - 1) IN
         S \cup {Append(s, b) : s \in {t \in S : Len(t) = n - 1}, b \in PayloadBytes}

\* Outbound packets: a type, an address and a payload of 0..MaxLen bytes.
CodecPackets ==
  {[NewPacket(t, Len(d), d) EXCEPT !.address = a] :
     t \in {FINGERPRINT_COMMANDPACKET, 255},
     a \in {<<255, 255, 255, 255>>, <<1, 2, 3, 4>>},
     d \in Payloads(MaxLen)}

InitCodec ==
  /\ app = AppStart
  /\ RingAtRest
  /\ line = <<>>
  /\ pc = "wr_hdr"
  /\ packet \in CodecPackets
  /\ tx = <<>>
  /\ wr = NoWriter
  /\ rd = ParserEntry
  /\ ret = None
  /\ cmd = NoCommand
  /\ result = None
  /\ sess = NewSession
  /\ hist = [NoHist EXCEPT !.orig = packet]

\* The bytes written are put on the receive line and getStructuredPacket is
\* called on a fresh packet.
Loopback ==
  /\ pc = "wr_done"
  /\ line' = tx
  /\ packet' = NewPacket(0, 0, <<>>)
  /\ rd' = ParserEntry
  /\ pc' = "recv"
  /\ UNCHANGED <<app, ringVars, tx, wr, ret, cmdVars, hist>>

NextCodec ==
  WriteHeader \/ WriteLoop \/ WriteTail \/ Loopback \/ receiveUART \/ PollEmpty \/ ReadByte

SpecCodec == InitCodec /\ [][NextCodec]_vars

(* ------------------------------------------------------ the command layer *)

\* The instruction codes of the header, by command method.
Opcode ==
  [checkPassword |-> 19, getParameters |-> 15, getImage |-> 1, image2Tz |-> 2,
   createModel |-> 5, storeModel |-> 6, loadModel |-> 7, getModel |-> 8,
   deleteModel |-> 12, emptyDatabase |-> 13, fingerFastSearch |-> 27,
   LEDon |-> 80, LEDoff |-> 81, LEDcontrol |-> 53, fingerSearch |-> 4,
   getTemplateCount |-> 29, setPassword |-> 18]

\* The high byte taken without the shift.
HiUnshifted(v) == v % 256

Hi(v) == (v \div 256) % 256
Lo(v) == v % 256

\* The four bytes of a 32-bit value, high byte first.
Bytes32(v) == <<(v \div 16777216) % 256, (v \div 65536) % 256, (v \div 256) % 256, v % 256>>

\* The calls the application makes: a method and its arguments.
Commands ==
  {[name |-> n, a |-> <<>>] :
     n \in {"checkPassword", "getParameters", "getImage", "createModel", "getModel",
            "emptyDatabase", "fingerFastSearch", "LEDon", "LEDoff", "getTemplateCount"}}
  \cup {[name |-> n, a |-> <<1>>] : n \in {"image2Tz", "fingerSearch"}}
  \cup {[name |-> n, a |-> <<258>>] : n \in {"storeModel", "loadModel", "deleteModel"}}
  \cup {[name |-> "LEDcontrol", a |-> <<3, 128, 1, 10>>],
        [name |-> "setPassword", a |-> <<16909060>>]}

\* Every request cut down to its instruction code.
RequestOpcodeOnly(c) == <<Opcode[c.name]>>

\* The bytes of data[] in GET_CMD_PACKET(...), by method.
Request(c) ==
  LET op == Opcode[c.name] IN
  CASE c.name = "checkPassword" -> <<op>> \o Bytes32(sess.thePassword)
    [] c.name = "setPassword" -> <<op>> \o Bytes32(c.a[1])
    [] c.name \in {"image2Tz"} -> <<op, c.a[1]>>
    [] c.name \in {"storeModel", "loadModel"} -> <<op, 1, Hi(c.a[1]), Lo(c.a[1])>>
    [] c.name = "getModel" -> <<op, 1>>
    [] c.name = "deleteModel" -> <<op, Hi(c.a[1]), Lo(c.a[1]), 0, 1>>
    [] c.name = "fingerFastSearch" -> <<op, 1, 0, 0, 0, 163>>
    [] c.name = "fingerSearch" -> <<op, c.a[1], 0, 0, Hi(sess.capacity), Lo(sess.capacity)>>
    [] c.name = "LEDcontrol" -> <<op>> \o c.a
    [] OTHER -> <<op>>

\* A command method is entered: GET_CMD_PACKET builds the packet and calls
\* writeStructuredPacket.
Call ==
  /\ pc = "idle"
  /\ \E c \in Commands :
       /\ cmd' = c
       /\ packet' = NewPacket(FINGERPRINT_COMMANDPACKET, Len(Request(c)), Request(c))
       /\ hist' = [hist EXCEPT !.orig = packet', !.sess0 = sess]
  /\ pc' = "wr_hdr"
  /\ UNCHANGED <<app, ringVars, line, tx, wr, rd, ret, result, sess>>

\* The frame of a reply: an acknowledgment or data packet whose payload starts
\* with a confirmation code, sent with a right or a wrong start code.
ReplyPayload(status, n) == <<status>> \o [k \in 1..(n - 1) |-> k]

Replies ==
  LET good == {Frame(NewPacket(t, n, ReplyPayload(st, n))) :
                 t \in {FINGERPRINT_ACKPACKET, 2}, n \in {1, MaxLen}, st \in {0, 1, 9}}
      bad == {[Frame(NewPacket(FINGERPRINT_ACKPACKET, 1, <<0>>)) EXCEPT ![2] = 0]}
      full == good \cup bad
  IN full \cup {SubSeq(f, 1, Len(f) - 1) : f \in full} \cup {<<>>}

\* The 17 payload bytes of the answer to ReadSysParam: confirmation code, status
\* register, system id, capacity, security level, device address, packet-length
\* code, baud code.
ScenarioParams == <<0, 0, 0, 0, 0, 0, 64, 0, 0, 0, 0, 0, 0, 0, 1, 0, 6>>

ParamPayload(code) == <<2, 1, 2, 3, 4, 5, 6, 7, 8, 9, 10, 11, 12, Hi(code), Lo(code), 0, 1>>

\* Packet-length codes the answer carries: those of the sensor and others.
ParamCodes == {0, 2, 3, 4}

ParamReplies ==
  {Frame(NewPacket(FINGERPRINT_ACKPACKET, 17, d)) :
     d \in {ScenarioParams} \cup {ParamPayload(c) : c \in ParamCodes}}

\* What the peer may answer to a command.
RepliesTo(c) == IF c.name = "getParameters" THEN Replies \cup ParamReplies ELSE Replies

\* getStructuredPacket(&packet) is called with the default timeout; the peer
\* answers the request with a reply, part of one, or nothing.
AwaitReply ==
  /\ pc = "wr_done"
  /\ cmd # NoCommand
  /\ \E l \in RepliesTo(cmd) : line' = l
  /\ rd' = ParserEntry
  /\ pc' = "recv"
  /\ UNCHANGED <<app, ringVars, packet, tx, wr, ret, cmdVars, hist>>

\* The type test of GET_CMD_PACKET left out.
ReceiveFailedNoTypeTest == ret # FINGERPRINT_OK

\* The two tests of GET_CMD_PACKET after the reply.
ReceiveFailed == ret # FINGERPRINT_OK \/ packet.type # FINGERPRINT_ACKPACKET

\* packet.data[k] as read by a command; g is what a never-written byte reads as.
Data(k, g) == IF DataAt(packet.data, k) = Uninit THEN g ELSE DataAt(packet.data, k)

\* The bytes of a 16-bit value the other way round.
WordLowFirst(k, g) == Data(k + 1, g) * 256 + Data(k, g)

Word(k, g) == Data(k, g) * 256 + Data(k + 1, g)

PacketLen(code) ==
  IF code = 0 THEN 32 ELSE IF code = 1 THEN 64 ELSE IF code = 2 THEN 128
  ELSE IF code = 3 THEN 256 ELSE code

\* Every command returns the confirmation code and keeps a template count.
ExtractCount(g) ==
  [result |-> Data(0, g), sess |-> [sess EXCEPT !.templateCount = Word(1, g)]]

\* Every command returns the confirmation code as it is.
ExtractVerbatim(g) == [result |-> Data(0, g), sess |-> sess]

\* Every command returns Ok or the communication error.
ExtractOkOrError(g) ==
  [result |-> IF Data(0, g) = FINGERPRINT_OK THEN FINGERPRINT_OK
              ELSE FINGERPRINT_PACKETRECIEVEERR,
   sess |-> sess]

\* A setPassword that is accepted stores the new password.
ExtractStoresPassword(g) ==
  [result |-> Data(0, g),
   sess |-> IF cmd.name = "setPassword" /\ Data(0, g) = FINGERPRINT_OK
              THEN [sess EXCEPT !.thePassword = cmd.a[1]]
              ELSE sess]

\* The body of a command method after GET_CMD_PACKET, as [result, sess].
Extract(g) ==
  CASE cmd.name = "checkPassword" ->
         [result |-> IF Data(0, g) = FINGERPRINT_OK THEN FINGERPRINT_OK
                     ELSE FINGERPRINT_PACKETRECIEVEERR,
          sess |-> sess]
    [] cmd.name = "getParameters" ->
         [result |-> Data(0, g),
          sess |-> [sess EXCEPT !.status_reg = Word(1, g),
                                !.system_id = Word(3, g),
                                !.capacity = Word(5, g),
                                !.security_level = Word(7, g),
                                !.device_addr = <<Data(9, g), Data(10, g), Data(11, g), Data(12, g)>>,
                                !.packet_len = PacketLen(Word(13, g)),
                                !.baud_rate = Word(15, g) * 9600]]
    [] cmd.name \in {"fingerFastSearch", "fingerSearch"} ->
         [result |-> Data(0, g),
          sess |-> [sess EXCEPT !.fingerID = Word(1, g), !.confidence = Word(3, g)]]
    [] cmd.name = "getTemplateCount" ->
         [result |-> Data(0, g),
          sess |-> [sess EXCEPT !.templateCount = Word(1, g)]]
    [] OTHER ->
         [result |-> Data(0, g), sess |-> sess]

\* bool Fingerprint::verifyPassword(void), on the value checkPassword returned.
verifyPassword(r) == r = FINGERPRINT_OK

\* A command that sends its request again when the receive failed.
CommandReturnRetry ==
  /\ pc = "parsed"
  /\ cmd # NoCommand
  /\ IF ReceiveFailed
       THEN /\ pc' = "wr_hdr"
            /\ packet' = hist.orig
            /\ UNCHANGED <<result, sess>>
       ELSE /\ \E g \in UninitVals :
                 /\ result' = Extract(g).result
                 /\ sess' = Extract(g).sess
            /\ pc' = "returned"
            /\ packet' = packet
  /\ UNCHANGED <<app, ringVars, line, tx, wr, rd, ret, cmd, hist>>

\* The rest of the command method once getStructuredPacket has returned.
CommandReturn ==
  /\ pc = "parsed"
  /\ cmd # NoCommand
  /\ IF ReceiveFailed
       THEN result' = FINGERPRINT_PACKETRECIEVEERR /\ sess' = sess
       ELSE \E g \in UninitVals :
              /\ result' = Extract(g).result
              /\ sess' = Extract(g).sess
  /\ pc' = "returned"
  /\ UNCHANGED <<app, ringVars, line, packet, tx, wr, rd, ret, cmd, hist>>

\* The object after Fingerprint::Fingerprint: pe = pl = buffUART.
Init ==
  /\ app = AppStart
  /\ buffUART = [k \in 0..(BuffSize - 1) |-> 0]
  /\ oob = 0
  /\ pe = 0
  /\ pl = 0
  /\ line = <<>>
  /\ pc = "idle"
  /\ packet = NewPacket(0, 0, <<>>)
  /\ tx = <<>>
  /\ wr = NoWriter
  /\ rd = ParserEntry
  /\ ret = None
  /\ cmd = NoCommand
  /\ result = None
  /\ sess = NewSession
  /\ hist = NoHist

Next ==
  \/ Call
  \/ WriteHeader
  \/ WriteLoop
  \/ WriteTail
  \/ AwaitReply
  \/ receiveUART
  \/ PollEmpty
  \/ ReadByte
  \/ CommandReturn

Spec == Init /\ [][Next]_vars

(* ------------------------------------------- the ring buffer on its own *)

RingBytes == {17, 34}

\* Sequences over RingBytes of length 1..n.
RECURSIVE SeqsUpTo(_)
SeqsUpTo(n) ==
  IF n = 0 THEN {<<>>}
  ELSE LET S == SeqsUpTo(n - 1) IN
         S \cup {Append(s, b) : s \in {t \in S : Len(t) = n - 1}, b \in RingBytes}

\* N < sizeof(buffUART) bytes arrive, then N reads.
InitRing ==
  /\ app = AppStart
  /\ RingAtRest
  /\ line \in SeqsUpTo(BuffSize - 1)
  /\ pc = "pop"
  /\ packet = NewPacket(0, 0, <<>>)
  /\ tx = <<>>
  /\ wr = NoWriter
  /\ rd = ParserEntry
  /\ ret = None
  /\ cmd = NoCommand
  /\ result = None
  /\ sess = NewSession
  /\ hist = NoHist

NextRing == receiveUART \/ readUARTbuff

SpecRing == InitRing /\ [][NextRing]_vars

(* ------------------------------------------------- the parser on a line *)

\* A received frame: junk before it, the start code, the address, the type, the
\* declared length L and n bytes after the header.
Body(n) == [k \in 1..n |-> 100 + k]

FrameBytes(junk, lo, type, L, n) ==
  junk \o <<StartHi, lo, 255, 255, 255, 255, type, L \div 256, L % 256>> \o Body(n)

ParseLines ==
  Prefixes({FrameBytes(j, lo, FINGERPRINT_ACKPACKET, L, MaxLen + 1) :
              j \in {<<>>, <<0>>, <<StartLo, 0>>}, lo \in {StartLo, 0}, L \in 0..MaxLen})

InitParse ==
  /\ app = AppStart
  /\ RingAtRest
  /\ line \in ParseLines
  /\ pc = "recv"
  /\ packet = NewPacket(FINGERPRINT_COMMANDPACKET, 1, <<1>>)
  /\ tx = <<>>
  /\ wr = NoWriter
  /\ rd = ParserEntry
  /\ ret = None
  /\ cmd = NoCommand
  /\ result = None
  /\ sess = NewSession
  /\ hist = NoHist

NextParse == receiveUART \/ PollEmpty \/ ReadByte

SpecParse == InitParse /\ [][NextParse]_vars

(* ------------------------------------------- the parser on a noisy line *)

\* Bytes other than the start-code high byte.
NoiseBytes == {0, StartLo}

\* The peer puts one more byte on the line: a stream with no end and no start code.
NoiseArrives ==
  /\ line = <<>>
  /\ \E b \in NoiseBytes : line' = <<b>>
  /\ UNCHANGED <<app, ringVars, pc, packet, tx, wr, rd, ret, cmdVars, hist>>

InitNoise ==
  /\ app = AppStart
  /\ RingAtRest
  /\ line = <<>>
  /\ pc = "recv"
  /\ packet = NewPacket(FINGERPRINT_COMMANDPACKET, 1, <<1>>)
  /\ tx = <<>>
  /\ wr = NoWriter
  /\ rd = ParserEntry
  /\ ret = None
  /\ cmd = NoCommand
  /\ result = None
  /\ sess = NewSession
  /\ hist = [NoHist EXCEPT !.on = FALSE]

NextNoise == NoiseArrives \/ receiveUART \/ PollEmpty \/ ReadByte

\* The main thread keeps running: the parser takes its next turn whenever it has one.
SpecNoise == InitNoise /\ [][NextNoise]_vars /\ WF_vars(PollEmpty \/ ReadByte)

(* ---------------------------------------------------- what the parser read *)

\* Position in the bytes read of the first start-code high byte (0: none yet).
FirstHi(p) ==
  IF \E k \in 1..Len(p) : p[k] = StartHi
    THEN CHOOSE k \in 1..Len(p) : p[k] = StartHi /\ \A j \in 1..(k - 1) : p[j] # StartHi
    ELSE 0

\* The nine header bytes have been read and the start code was the right one.
HeaderRead(p) == FirstHi(p) > 0 /\ Len(p) >= FirstHi(p) + 8 /\ p[FirstHi(p) + 1] = StartLo

\* The length the header declares, and the number of bytes read after the header.
Declared(p) == p[FirstHi(p) + 7] * 256 + p[FirstHi(p) + 8]
PostRead(p) == Len(p) - (FirstHi(p) + 8)

Returned(v) == pc = "parsed" /\ ret = v

(* ------------------------------------------------------------------ C5 *)

\* C5 as stated: when the first two bytes read are not the start code, the parser
\* returns BadPacket having consumed exactly those two bytes.
C5_FirstTwoBytesRejected ==
  LET p == hist.popped IN
  (Len(p) >= 2 /\ <<p[1], p[2]>> # <<StartHi, StartLo>>)
    => (Returned(FINGERPRINT_BADPACKET) /\ Len(p) = 2)

\* C5 amended: bytes before the first start-code high byte are read and discarded;
\* when the byte read after that high byte is not the start-code low byte the
\* parser returns BadPacket and has read no byte beyond it, and BadPacket is
\* returned in no other case.
C5_BadStartCodeRejected ==
  LET p == hist.popped
      k == FirstHi(p) IN
    /\ (k > 0 /\ Len(p) > k /\ p[k + 1] # StartLo)
         => (Returned(FINGERPRINT_BADPACKET) /\ Len(p) = k + 1)
    /\ ret = FINGERPRINT_BADPACKET
         => (k > 0 /\ Len(p) = k + 1 /\ p[k + 1] # StartLo)

\* BadPacket returned after junk was discarded, with bytes waiting that stay unread.
C5_Witness ==
  /\ Returned(FINGERPRINT_BADPACKET)
  /\ FirstHi(hist.popped) > 1
  /\ Len(hist.pushed) > Len(hist.popped)
  /\ ~hist.overflow

(* ------------------------------------------------------------------ C6 *)

\* C6: after N < sizeof(buffUART) pushes followed by reads, from any position of
\* the cursors, the i-th byte read is the i-th byte pushed.
C6_RingFifo ==
  \A i \in 1..Len(hist.popped) : hist.popped[i] = hist.pushed[i]

(* ------------------------------------------------------------------ C7 *)

\* C7: a frame that declares length L of which fewer than L bytes after the
\* header were read when the parser returns makes it return Timeout, never Ok.
\* The frame is the one the parser read: its header bytes and the bytes after.
C7_ShortFrameTimesOut ==
  LET p == hist.popped IN
  (pc = "parsed" /\ HeaderRead(p) /\ PostRead(p) < Declared(p))
    => ret = FINGERPRINT_TIMEOUT

\* Timeout on a frame cut short: some but not all of the declared bytes arrived.
C7_Witness ==
  LET p == hist.popped IN
  /\ Returned(FINGERPRINT_TIMEOUT)
  /\ HeaderRead(p)
  /\ PostRead(p) > 0
  /\ PostRead(p) < Declared(p)
  /\ line = <<>>
  /\ ~hist.overflow

(* ------------------------------------------------------------------ C8 *)

\* C8 as stated: once the header is read, for every declared length L, the parser
\* never reads more than L bytes after it and has returned Ok exactly when it
\* has read L of them.
C8_OkAtDeclaredLength ==
  LET p == hist.popped IN
  HeaderRead(p) =>
    /\ PostRead(p) <= Declared(p)
    /\ (PostRead(p) = Declared(p)) <=> Returned(FINGERPRINT_OK)

\* The same for a declared length of at least 1 (not part of C8's verdict).
C8_OkAtPositiveLength ==
  LET p == hist.popped IN
  (HeaderRead(p) /\ Declared(p) >= 1) =>
    /\ PostRead(p) <= Declared(p)
    /\ (PostRead(p) = Declared(p)) <=> Returned(FINGERPRINT_OK)

(* ------------------------------------------------------------------ C4 *)

\* C4: when no start-code high byte reaches the ring, whatever other bytes
\* arrive, the parser returns Timeout (and never Ok).
C4_NoStartByteTimesOut == <>(pc = "parsed" /\ ret = FINGERPRINT_TIMEOUT)

\* The half of C4 that holds: without a start-code high byte Ok is never returned.
C4_NoStartByteNeverOk == ret # FINGERPRINT_OK

(* ------------------------------------------------------- C1, C2 and C3 *)

WriterDone == pc \in {"wr_done", "recv", "parsed"}

\* C1: the bytes written for a packet, fed through the ring to the parser, come
\* back as Ok with the type, the address and the payload of the original, the
\* length being the payload's plus the two checksum bytes that follow it in data.
\* (All bytes arrived, the ring did not overflow, the parser did not time out.)
C1_RoundTrip ==
  LET o == hist.orig IN
  (pc = "parsed" /\ line = <<>> /\ ~hist.overflow /\ ret # FINGERPRINT_TIMEOUT)
    => /\ ret = FINGERPRINT_OK
       /\ packet.type = o.type
       /\ packet.address = o.address
       /\ packet.length = o.length + 2
       /\ packet.data = o.data \o <<Checksum(o) \div 256, Checksum(o) % 256>>

\* The same when every byte read from the ring is the byte that was pushed and
\* the frame fits data[] (not part of C1's verdict).
C1_RoundTripFaithfulRing ==
  ((\A i \in 1..Len(hist.popped) : hist.popped[i] = hist.pushed[i]) /\ ~hist.dataOverrun)
    => C1_RoundTrip

\* C2: the last two bytes written are the checksum, high byte first.
C2_ChecksumBytes ==
  WriterDone =>
    /\ Len(tx) >= 2
    /\ SubSeq(tx, Len(tx) - 1, Len(tx)) =
         <<Checksum(hist.orig) \div 256, Checksum(hist.orig) % 256>>

\* A packet of MaxLen payload bytes written, its checksum above 255.
C2_Witness ==
  /\ pc = "wr_done"
  /\ hist.orig.length = MaxLen
  /\ wr.sum > 255
  /\ tx[Len(tx) - 1] > 0

\* C3: the bytes written are the frame of the packet and nothing else, 11 + length
\* bytes; while the writer runs, what is written is the frame's first nine bytes.
C3_FrameLayout ==
  /\ WriterDone => (tx = Frame(hist.orig) /\ Len(tx) = 11 + hist.orig.length)
  /\ pc \in {"wr_loop", "wr_sum"} => tx = SubSeq(Frame(hist.orig), 1, 9)

\* A packet with another address and MaxLen payload bytes written.
C3_Witness ==
  /\ pc = "wr_done"
  /\ hist.orig.length = MaxLen
  /\ hist.orig.address = <<1, 2, 3, 4>>
  /\ Len(tx) = 11 + MaxLen

(* ---------------------------------------------------------- C9 and C10 *)

\* C9: a command whose receive cycle failed (getStructuredPacket returned
\* Timeout or BadPacket, or the frame is no acknowledgment) returns
\* PACKETRECIEVEERR and leaves every session-state field as it was at the call.
C9_FailureIsCommError ==
  (pc = "returned" /\ (ret # FINGERPRINT_OK \/ packet.type # FINGERPRINT_ACKPACKET))
    => (result = FINGERPRINT_PACKETRECIEVEERR /\ sess = hist.sess0)

\* getParameters answered by a well-formed frame of another type whose first
\* byte is Ok: the communication error is returned.
C9_Witness ==
  /\ pc = "returned"
  /\ cmd.name = "getParameters"
  /\ ret = FINGERPRINT_OK
  /\ packet.type # FINGERPRINT_ACKPACKET
  /\ packet.data[1] = FINGERPRINT_OK
  /\ result = FINGERPRINT_PACKETRECIEVEERR

\* C10: a command returns the communication-error value only when its receive
\* cycle failed, never for a well-formed acknowledgment frame.
C10_CommErrorOnlyOnFailure ==
  (pc = "returned" /\ result = FINGERPRINT_PACKETRECIEVEERR)
    => (ret # FINGERPRINT_OK \/ packet.type # FINGERPRINT_ACKPACKET)

(* --------------------------------------------------------- C11 and C12 *)

\* The command has returned past GET_CMD_PACKET on an answer of at least n
\* payload-and-checksum bytes.
Answered(name, n) ==
  /\ pc = "returned"
  /\ cmd.name = name
  /\ ret = FINGERPRINT_OK
  /\ packet.type = FINGERPRINT_ACKPACKET
  /\ Len(packet.data) >= n

\* C11: on a well-formed acknowledgment getParameters returns payload byte 0 and
\* sets the status register, system id, capacity and security level from bytes
\* 1-2, 3-4, 5-6, 7-8 (high byte first), the device address from bytes 9-12, the
\* packet length from the code in bytes 13-14 (0, 1, 2, 3 give 32, 64, 128, 256)
\* and the baud rate as the code in bytes 15-16 times 9600; the payload of the
\* scenario gives Ok, capacity 64, packet length 64, baud rate 57600.
C11_ParametersDecoded ==
  Answered("getParameters", 17) =>
    LET d == packet.data
        code == d[14] * 256 + d[15] IN
    /\ result = d[1]
    /\ sess.status_reg = d[2] * 256 + d[3]
    /\ sess.system_id = d[4] * 256 + d[5]
    /\ sess.capacity = d[6] * 256 + d[7]
    /\ sess.security_level = d[8] * 256 + d[9]
    /\ sess.device_addr = <<d[10], d[11], d[12], d[13]>>
    /\ (code = 0 => sess.packet_len = 32)
    /\ (code = 1 => sess.packet_len = 64)
    /\ (code = 2 => sess.packet_len = 128)
    /\ (code = 3 => sess.packet_len = 256)
    /\ sess.baud_rate = (d[16] * 256 + d[17]) * 9600
    /\ (SubSeq(d, 1, 17) = ScenarioParams =>
          /\ result = FINGERPRINT_OK
          /\ sess.capacity = 64
          /\ sess.packet_len = 64
          /\ sess.baud_rate = 57600)

\* The scenario's answer decoded, and an answer with other fields decoded.
C11_Witness ==
  /\ Answered("getParameters", 17)
  /\ SubSeq(packet.data, 1, 17) = ScenarioParams
  /\ result = FINGERPRINT_OK
  /\ sess.baud_rate = 57600

\* C12: after a getParameters call that does not return the communication-error
\* status the packet length is one of 32, 64, 128, 256, whatever the code was.
C12_PacketLenDecoded ==
  (pc = "returned" /\ cmd.name = "getParameters" /\ result # FINGERPRINT_PACKETRECIEVEERR)
    => sess.packet_len \in {32, 64, 128, 256}

\* The same for the codes 0..3 in a full answer (not part of C12's verdict).
C12_PacketLenOfKnownCode ==
  (Answered("getParameters", 17) /\ packet.data[14] * 256 + packet.data[15] \in 0..3)
    => sess.packet_len \in {32, 64, 128, 256}

(* --------------------------------------------------------- C13 and C14 *)

\* C13: when the acknowledgment to fingerFastSearch carries the status NotFound,
\* fingerFastSearch returns NotFound, and fingerID and confidence hold defined
\* values: 16-bit values made of bytes of data[] that have been written.
C13_NotFoundReturned ==
  (Answered("fingerFastSearch", 1) /\ packet.data[1] = FINGERPRINT_NOTFOUND) =>
    /\ result = FINGERPRINT_NOTFOUND
    /\ result \notin {FINGERPRINT_OK, FINGERPRINT_PACKETRECIEVEERR}
    /\ \A k \in 1..4 : DataAt(packet.data, k) # Uninit
    /\ sess.fingerID = packet.data[2] * 256 + packet.data[3]
    /\ sess.confidence = packet.data[4] * 256 + packet.data[5]

\* NotFound answered with the confirmation code alone: the fields are made of
\* the checksum bytes and of bytes of the request.
C13_Witness ==
  /\ Answered("fingerFastSearch", 1)
  /\ packet.data[1] = FINGERPRINT_NOTFOUND
  /\ packet.length = 3
  /\ result = FINGERPRINT_NOTFOUND
  /\ sess.confidence = 0

\* C14: on every fingerFastSearch call, those that end with the communication
\* error included, fingerID and confidence have been assigned 0xFFFF before the
\* return; on the failure path nothing is parsed, so they hold 0xFFFF at return.
C14_SentinelOnFailure ==
  (pc = "returned" /\ cmd.name = "fingerFastSearch" /\ ReceiveFailed)
    => (sess.fingerID = 65535 /\ sess.confidence = 65535)

(* ------------------------------------------------------- C15 .. C18 *)

\* C15: in every reachable state both cursors index inside the array.
C15_CursorsInArray == pe < BuffSize /\ pl < BuffSize

\* The bound that holds: a cursor may also stand one past the array.
C15_CursorsUpToEnd == pe <= BuffSize /\ pl <= BuffSize

\* C16: the write cursor is changed only by receiveUART and the read cursor only
\* by the parser's readUARTbuff; each leaves the other cursor as it is, and no
\* command method, serializer step or empty poll changes either.
C16_CursorOwners ==
  [][
    /\ (pe' # pe => receiveUART)
    /\ (pl' # pl => ReadByte)
    /\ (receiveUART => pl' = pl)
    /\ (ReadByte => pe' = pe)
    /\ ((Call \/ WriteHeader \/ WriteLoop \/ WriteTail \/ AwaitReply
           \/ PollEmpty \/ CommandReturn) => (pe' = pe /\ pl' = pl))
  ]_vars

\* Both cursors have moved, in a ring that is full: the next push makes them meet.
C16_Witness ==
  /\ pc = "recv"
  /\ Len(hist.popped) > 0
  /\ Advance(pe) = pl
  /\ line # <<>>

\* C17: under every interleaving of pushes with the parser's reads, as long as
\* the write cursor never catches up with the read cursor, the bytes read are
\* the bytes that arrived, in their order, none lost or duplicated.
C17_ArrivalOrder ==
  ~hist.overflow =>
    /\ Len(hist.popped) <= Len(hist.pushed)
    /\ \A i \in 1..Len(hist.popped) : hist.popped[i] = hist.pushed[i]

\* What holds of C17: as many bytes are read as arrived, one read per push.
C17_OneReadPerPush ==
  ~hist.overflow =>
    /\ Len(hist.popped) <= Len(hist.pushed)
    /\ (pe = pl) <=> (Len(hist.popped) = Len(hist.pushed))

\* C18: the parser finds the ring empty exactly when pe = pl, and nothing
\* detects an overflow: the cursors are equal whenever the number of unread
\* bytes is a multiple of a lap, so after a full lap without a read the ring is
\* found empty, and the parser returns Timeout as it does on a silent line.
C18_EmptyIffCursorsEqual ==
  /\ Len(hist.popped) <= Len(hist.pushed)
  /\ (pe = pl) <=> ((Len(hist.pushed) - Len(hist.popped)) % (BuffSize + 1) = 0)
  /\ pc = "recv" => /\ (ENABLED PollEmpty) <=> (pe = pl)
                    /\ (ENABLED ReadByte) <=> (pe # pl)
  /\ (pc = "parsed" /\ hist.popped = <<>>) => ret = FINGERPRINT_TIMEOUT

\* A full lap arrived and nothing was read: Timeout, the bytes are lost.
C18_Witness ==
  /\ hist.overflow
  /\ hist.popped = <<>>
  /\ Len(hist.pushed) = BuffSize + 1
  /\ pe = pl
  /\ Returned(FINGERPRINT_TIMEOUT)

(* ------------------------------------------------------------------ C19 *)

\* C19: the state index only moves forward. In state 0 a byte that is not the
\* start-code high byte is read and the state stays 0; in every state >= 1 a
\* byte read advances the index by one unless the parser returns; the parser
\* returns only Ok, Timeout or BadPacket, BadPacket only in state 1 and Ok only
\* in state >= 9.
C19_ForwardOnly ==
  /\ [](pc = "parsed" =>
          /\ ret \in {FINGERPRINT_OK, FINGERPRINT_TIMEOUT, FINGERPRINT_BADPACKET}
          /\ (ret = FINGERPRINT_BADPACKET => rd.idx = 1)
          /\ (ret = FINGERPRINT_OK => rd.idx >= 9))
  /\ [][
       /\ rd'.idx >= rd.idx
       /\ (PollEmpty => rd'.idx = rd.idx)
       /\ (ReadByte =>
            LET c == hist'.popped[Len(hist'.popped)] IN
              /\ (rd.idx = 0 /\ c # StartHi) => (rd'.idx = 0 /\ pc' = "recv")
              /\ (rd.idx = 0 /\ c = StartHi) => (rd'.idx = 1 /\ pc' = "recv")
              /\ (rd.idx >= 1 /\ pc' = "recv") => rd'.idx = rd.idx + 1
              /\ pc' = "parsed" => (rd'.idx = rd.idx /\ (rd.idx = 1 \/ rd.idx >= 9)))
     ]_vars

\* Ok returned in the payload phase after bytes were discarded in state 0.
C19_Witness ==
  /\ Returned(FINGERPRINT_OK)
  /\ FirstHi(hist.popped) > 1
  /\ rd.idx > 9

(* ------------------------------------- a late answer and the next command *)

\* The answer to the command that times out: a confirmation code and a tail.
AbandonedTails == {<<1>>, <<StartHi>>, <<StartHi, StartLo>>}

AbandonedFrames ==
  {Frame(NewPacket(FINGERPRINT_ACKPACKET, 1 + Len(t), <<0>> \o t)) : t \in AbandonedTails}

\* The answer to the next command.
NextAnswers == {NewPacket(FINGERPRINT_ACKPACKET, n, ReplyPayload(0, n)) : n \in {1, MaxLen}}

\* getImage is waiting for its answer; the answer and, behind it, the answer to
\* the next command arrive whenever the line delivers them.
InitResync ==
  /\ app = AppStart
  /\ buffUART = [k \in 0..(BuffSize - 1) |-> 0]
  /\ oob = 0
  /\ pe = 0
  /\ pl = 0
  /\ \E a \in AbandonedFrames, f \in NextAnswers :
       /\ line = a \o Frame(f)
       /\ hist = [NoHist EXCEPT !.orig = f]
  /\ pc = "recv"
  /\ packet = NewPacket(FINGERPRINT_COMMANDPACKET, 1, <<Opcode.getImage>>)
  /\ tx = <<>>
  /\ wr = NoWriter
  /\ rd = ParserEntry
  /\ ret = None
  /\ cmd = [name |-> "getImage", a |-> <<>>]
  /\ result = None
  /\ sess = NewSession

\* The command whose receive timed out past the first start-code byte returns
\* the communication error; the next command is called, writes its request and
\* enters getStructuredPacket. The history goes on with the bytes not read yet.
NextReceive ==
  /\ pc = "parsed"
  /\ ret = FINGERPRINT_TIMEOUT
  /\ rd.idx >= 1
  /\ result = None
  /\ result' = FINGERPRINT_PACKETRECIEVEERR
  /\ cmd' = [name |-> "image2Tz", a |-> <<1>>]
  /\ packet' = NewPacket(FINGERPRINT_COMMANDPACKET, 2, <<Opcode.image2Tz, 1>>)
  /\ tx' = tx \o Frame(packet')
  /\ rd' = ParserEntry
  /\ ret' = None
  /\ pc' = "recv"
  /\ hist' = [hist EXCEPT !.pushed = SubSeq(@, Len(hist.popped) + 1, Len(@)), !.popped = <<>>]
  /\ UNCHANGED <<app, ringVars, line, wr, sess>>

NextResync == receiveUART \/ PollEmpty \/ ReadByte \/ NextReceive

SpecResync == InitResync /\ [][NextResync]_vars

(* ------------------------------------------------------------------ C20 *)

\* The next command's getStructuredPacket has returned something else than Timeout.
NextReturned ==
  /\ result = FINGERPRINT_PACKETRECIEVEERR
  /\ pc = "parsed"
  /\ ret # FINGERPRINT_TIMEOUT
  /\ ~hist.overflow

\* The packet is the answer to the next command.
NextAnswerParsed ==
  LET o == hist.orig IN
  /\ ret = FINGERPRINT_OK
  /\ packet.type = o.type
  /\ packet.address = o.address
  /\ packet.length = o.length + 2
  /\ packet.data = o.data \o <<Checksum(o) \div 256, Checksum(o) % 256>>

\* C20: after a command has timed out mid-frame and the rest of its answer
\* arrives late, followed by the complete answer to the next command, the next
\* getStructuredPacket discards the stray bytes in state 0 and returns Ok with
\* the new frame, whatever the stray bytes are.
C20_Resync == NextReturned => NextAnswerParsed

\* The bytes ahead of the next answer in what the next invocation is given:
\* the bytes pushed and not read when it starts, and those that arrive later.
StrayBytes ==
  LET all == hist.pushed \o line IN SubSeq(all, 1, Len(all) - Len(Frame(hist.orig)))

CleanStray == \A i \in 1..Len(StrayBytes) : StrayBytes[i] # StartHi

\* Every byte read from the ring is the byte that was pushed.
FaithfulReads == \A i \in 1..Len(hist.popped) : hist.popped[i] = hist.pushed[i]

\* What holds of C20: stray bytes without a start-code high byte are discarded
\* and the new frame is returned, when the ring hands the bytes over as pushed.
C20_ResyncCleanStray == (NextReturned /\ FaithfulReads /\ CleanStray) => NextAnswerParsed

\* The stray bytes alone break C20, with a ring that hands the bytes over as pushed.
C20_ResyncFaithfulRing == (NextReturned /\ FaithfulReads) => NextAnswerParsed

\* Stray bytes were discarded and the new frame returned.
C20_CleanStrayReached ==
  /\ NextReturned
  /\ FaithfulReads
  /\ Len(StrayBytes) > 0
  /\ CleanStray
  /\ NextAnswerParsed

(* ------------------------------------------------------------------ C21 *)

\* C21: the checksum is not verified. A frame with a valid start code whose
\* declared length L (at least 2) has been read is accepted with Ok whatever its
\* last two bytes are, and every byte after the header, the two last ones
\* included, is in data: the last two at the indices L-2 and L-1.
C21_ChecksumNotVerified ==
  LET p == hist.popped
      k == FirstHi(p)
      L == Declared(p) IN
  (HeaderRead(p) /\ L >= 2 /\ PostRead(p) = L) =>
    /\ Returned(FINGERPRINT_OK)
    /\ packet.length = L
    /\ \A j \in 0..(L - 1) : DataAt(packet.data, j) = p[k + 9 + j]
    /\ DataAt(packet.data, L - 2) = p[Len(p) - 1]
    /\ DataAt(packet.data, L - 1) = p[Len(p)]

\* The sum the sender of the frame read should have put at its end.
SumOfRead(p) ==
  LET k == FirstHi(p) IN
  (p[k + 6] + p[k + 7] + p[k + 8] + SumSeq(SubSeq(p, k + 9, Len(p) - 2))) % 65536

\* Ok on a frame whose last two bytes are not its checksum.
C21_Witness ==
  LET p == hist.popped IN
  /\ Returned(FINGERPRINT_OK)
  /\ HeaderRead(p)
  /\ Declared(p) = MaxLen
  /\ p[Len(p) - 1] * 256 + p[Len(p)] # SumOfRead(p)
  /\ DataAt(packet.data, MaxLen - 1) = p[Len(p)]

(* ------------------------------------------------------------------ C22 *)

\* The order of the positions of a command method.
PcOrder ==
  {<<"idle", "wr_hdr">>, <<"wr_hdr", "wr_loop">>, <<"wr_loop", "wr_sum">>,
   <<"wr_sum", "wr_done">>, <<"wr_done", "recv">>, <<"recv", "parsed">>,
   <<"parsed", "returned">>}

\* C22: no command retries. The positions of a command follow one another in
\* one order, so writeStructuredPacket runs once, then getStructuredPacket
\* once; once the writer is done the bytes written are the one frame of the
\* request, and they are still that when the command has returned, whatever
\* the outcome.
C22_NoRetry ==
  /\ [][pc' # pc => <<pc, pc'>> \in PcOrder]_vars
  /\ [](pc \in {"wr_done", "recv", "parsed", "returned"} => tx = Frame(hist.orig))
  /\ [](pc \in {"idle", "wr_hdr"} => tx = <<>>)
  /\ [](pc # "returned" => result = None)

\* A command that failed by timeout has returned, its request written once.
C22_Witness ==
  /\ pc = "returned"
  /\ ret = FINGERPRINT_TIMEOUT
  /\ result = FINGERPRINT_PACKETRECIEVEERR
  /\ tx = Frame(hist.orig)

(* ------------------------------------------------- C23, C25, C26, C27 *)

\* The commands built on SEND_CMD_PACKET.
SimpleCommands ==
  {"getImage", "image2Tz", "createModel", "storeModel", "loadModel", "getModel",
   "deleteModel", "emptyDatabase", "setPassword", "LEDcontrol", "LEDon", "LEDoff"}

\* The session-state fields, by the command that sets them.
MatchFields == {"fingerID", "confidence"}
CountFields == {"templateCount"}
ParamFields ==
  {"status_reg", "system_id", "capacity", "security_level", "device_addr",
   "packet_len", "baud_rate"}

\* The fields of the session state that differ from their values at the call.
Changed == {f \in DOMAIN sess : sess[f] # hist.sess0[f]}

\* C23: the session-state fields are changed only by their owning command. The
\* Send-Simple commands and checkPassword change none on any outcome; the two
\* searches change at most fingerID and confidence, getTemplateCount at most
\* templateCount, getParameters at most the parameter fields.
C23_FieldOwners ==
  /\ pc # "returned" => Changed = {}
  /\ pc = "returned" =>
       /\ cmd.name \in SimpleCommands \cup {"checkPassword"} => Changed = {}
       /\ cmd.name \in {"fingerFastSearch", "fingerSearch"} => Changed \subseteq MatchFields
       /\ cmd.name = "getTemplateCount" => Changed \subseteq CountFields
       /\ cmd.name = "getParameters" => Changed \subseteq ParamFields

\* storeModel accepted by the sensor: no field changed.
C23_Witness ==
  /\ Answered("storeModel", 1)
  /\ result = FINGERPRINT_OK
  /\ sess = hist.sess0

\* getTemplateCount answered: templateCount changed, and it alone.
C23_CountWitness == Answered("getTemplateCount", 1) /\ Changed = CountFields

\* C25: checkPassword returns Ok exactly when the receive succeeded with an
\* acknowledgment whose first payload byte is Ok, and the communication error
\* in every other case; verifyPassword is true exactly when checkPassword
\* returns Ok.
C25_CheckPassword ==
  (pc = "returned" /\ cmd.name = "checkPassword") =>
    LET good == /\ ret = FINGERPRINT_OK
                /\ packet.type = FINGERPRINT_ACKPACKET
                /\ DataAt(packet.data, 0) = FINGERPRINT_OK IN
    /\ result = (IF good THEN FINGERPRINT_OK ELSE FINGERPRINT_PACKETRECIEVEERR)
    /\ verifyPassword(result) <=> good

\* checkPassword answered by an acknowledgment with another confirmation code.
C25_Witness ==
  /\ Answered("checkPassword", 1)
  /\ packet.data[1] = FINGERPRINT_NOTFOUND
  /\ result = FINGERPRINT_PACKETRECIEVEERR
  /\ ~verifyPassword(result)

\* C26: a Send-Simple command answered by a well-formed acknowledgment returns
\* the first payload byte, whatever its value.
C26_SimpleReturnsStatus ==
  \A n \in SimpleCommands : Answered(n, 1) => result = packet.data[1]

\* deleteModel returns a confirmation code that is neither Ok nor the error value.
C26_Witness ==
  /\ Answered("deleteModel", 1)
  /\ result = FINGERPRINT_NOTFOUND

\* The payload of the frame written: the bytes between header and checksum.
SentPayload == SubSeq(tx, 10, Len(tx) - 2)

\* C27: the request payloads. storeModel(loc) and loadModel(loc) send opcode,
\* 1, loc high, loc low; deleteModel(loc) opcode, loc high, loc low, 0, 1;
\* fingerSearch(slot) opcode, slot, 0, 0, capacity high, capacity low;
\* fingerFastSearch opcode, 1, 0, 0, 0, 0xA3; the length of the packet is the
\* number of these bytes.
C27_RequestLayout ==
  (pc = "wr_done" /\ cmd # NoCommand) =>
    LET op == Opcode[cmd.name]
        loc == IF cmd.a = <<>> THEN 0 ELSE cmd.a[1]
        cap == hist.sess0.capacity IN
    /\ hist.orig.length = Len(SentPayload)
    /\ tx[8] * 256 + tx[9] = Len(SentPayload) + 2
    /\ cmd.name \in {"storeModel", "loadModel"} =>
         SentPayload = <<op, 1, loc \div 256, loc % 256>>
    /\ cmd.name = "deleteModel" => SentPayload = <<op, loc \div 256, loc % 256, 0, 1>>
    /\ cmd.name = "fingerSearch" =>
         SentPayload = <<op, cmd.a[1], 0, 0, cap \div 256, cap % 256>>
    /\ cmd.name = "fingerFastSearch" => SentPayload = <<op, 1, 0, 0, 0, 163>>

\* deleteModel(0x0102) written.
C27_Witness ==
  /\ pc = "wr_done"
  /\ cmd.name = "deleteModel"
  /\ SentPayload = <<Opcode.deleteModel, 1, 2, 0, 1>>
  /\ Len(tx) = 16

(* ------------------------------------------ several commands in a row *)

\* A password other than the one given to the constructor.
OtherPassword == 5 * 16777216 + 6 * 65536 + 7 * 256 + 8

PasswordCalls ==
  {[name |-> "setPassword", a |-> <<OtherPassword>>], [name |-> "checkPassword", a |-> <<>>]}

\* The length of the frame of a password request: 11 bytes and 5 of payload.
PasswordFrameLen == 11 + 5

\* The application calls setPassword or checkPassword, at first or after a
\* command has returned; the bytes written pile up in tx.
CallPassword ==
  /\ pc \in {"idle", "returned"}
  /\ Len(tx) < MaxCalls * PasswordFrameLen
  /\ \E c \in PasswordCalls :
       /\ cmd' = c
       /\ packet' = NewPacket(FINGERPRINT_COMMANDPACKET, Len(Request(c)), Request(c))
       /\ hist' = [hist EXCEPT !.orig = packet', !.sess0 = sess]
  /\ pc' = "wr_hdr"
  /\ UNCHANGED <<app, ringVars, line, tx, wr, rd, ret, result, sess>>

\* The sensor accepts the request, or stays silent; its bytes queue behind
\* those still on the line.
Answers == {Frame(NewPacket(FINGERPRINT_ACKPACKET, 1, <<FINGERPRINT_OK>>)), <<>>}

AwaitAnswer ==
  /\ pc = "wr_done"
  /\ cmd # NoCommand
  /\ \E l \in Answers : line' = line \o l
  /\ rd' = ParserEntry
  /\ pc' = "recv"
  /\ UNCHANGED <<app, ringVars, packet, tx, wr, ret, cmdVars, hist>>

NextSession ==
  \/ CallPassword
  \/ WriteHeader
  \/ WriteLoop
  \/ WriteTail
  \/ AwaitAnswer
  \/ receiveUART
  \/ PollEmpty
  \/ ReadByte
  \/ CommandReturn

\* The object after construction; the history of pushes and reads is not kept.
InitSession ==
  /\ app = AppStart
  /\ buffUART = [k \in 0..(BuffSize - 1) |-> 0]
  /\ oob = 0
  /\ pe = 0
  /\ pl = 0
  /\ line = <<>>
  /\ pc = "idle"
  /\ packet = NewPacket(0, 0, <<>>)
  /\ tx = <<>>
  /\ wr = NoWriter
  /\ rd = ParserEntry
  /\ ret = None
  /\ cmd = NoCommand
  /\ result = None
  /\ sess = NewSession
  /\ hist = [NoHist EXCEPT !.on = FALSE]

SpecSession == InitSession /\ [][NextSession]_vars

(* ------------------------------------------------------------------ C24 *)

\* The frame checkPassword writes for the constructor's password.
CheckFrame ==
  Frame(NewPacket(FINGERPRINT_COMMANDPACKET, 5,
                  <<Opcode.checkPassword>> \o Bytes32(NewSession.thePassword)))

\* C24: the stored password does not change after construction. Whatever
\* commands were called before, a setPassword with another password that the
\* sensor accepted included, thePassword is the constructor's and the frame
\* checkPassword writes carries it.
C24_PasswordImmutable ==
  /\ sess.thePassword = NewSession.thePassword
  /\ (cmd.name = "checkPassword" /\ pc = "wr_done") =>
       SubSeq(tx, Len(tx) - PasswordFrameLen + 1, Len(tx)) = CheckFrame

\* setPassword with another password was accepted, then checkPassword wrote its frame.
C24_Witness ==
  /\ cmd.name = "checkPassword"
  /\ pc = "wr_done"
  /\ result = FINGERPRINT_OK
  /\ Len(tx) = 2 * PasswordFrameLen
  /\ SubSeq(tx, 10, 14) = <<Opcode.setPassword>> \o Bytes32(OtherPassword)
  /\ OtherPassword # NewSession.thePassword

(* ------------------------------------------- the parser in a long frame *)

\* Declared lengths around the capacity of data, and the largest one.
LongLengths == {DataCap, DataCap + 1, DataCap + 2, 65535}

\* Bytes of the frame still to arrive.
LongLines == {[k \in 1..n |-> 0] : n \in 0..4}

\* getStructuredPacket in the payload phase of a frame whose header declared a
\* length of at least the capacity of data: DataCap - 2 bytes after the header
\* have been read and stored, the next goes to data[DataCap - 2]. The history
\* starts here.
InitLong ==
  /\ app = AppStart
  /\ RingAtRest
  /\ line \in LongLines
  /\ pc = "recv"
  /\ \E L \in LongLengths :
       packet = [NewPacket(FINGERPRINT_ACKPACKET, 0, <<>>)
                   EXCEPT !.length = L, !.data = [k \in 1..(DataCap - 2) |-> 0]]
  /\ tx = <<>>
  /\ wr = NoWriter
  /\ rd = [ParserEntry EXCEPT !.idx = 9 + DataCap - 2]
  /\ ret = None
  /\ cmd = NoCommand
  /\ result = None
  /\ sess = NewSession
  /\ hist = NoHist

SpecLong == InitLong /\ [][NextParse]_vars

(* ------------------------------------------------------------------ C28 *)

\* C28: the parser never writes outside data: every index idx - 9 it stores a
\* byte at is smaller than the capacity, whatever length the header declared.
C28_DataWritesInBounds == ~hist.dataOverrun

\* What holds of C28: no write outside data when the declared length is at
\* most the capacity, and the last index written is the length minus one.
C28_InBoundsUpToCapacity ==
  packet.length <= DataCap =>
    /\ ~hist.dataOverrun
    /\ Returned(FINGERPRINT_OK) => rd.idx - 9 = packet.length - 1

\* A frame of exactly the capacity is returned.
C28_FullFrameReached ==
  /\ Returned(FINGERPRINT_OK)
  /\ packet.length = DataCap
  /\ Len(packet.data) = DataCap

(* ------------------------------------------- the writer on a long packet *)

\* Packet lengths around the range of the uint8_t loop index.
WriterLengths == {256 - 2, 256 - 1, 256, 256 + 1}

\* Number of turns of the loop already made.
LoopStart == 256 - 3

\* writeStructuredPacket in its for loop on a packet of one of these lengths
\* whose data is all zeros: the header is written, LoopStart bytes are in
\* dataBuffer (those read past the end of data read as zero so far).
InitWriter ==
  /\ app = AppStart
  /\ RingAtRest
  /\ line = <<>>
  /\ pc = "wr_loop"
  /\ \E L \in WriterLengths :
       /\ packet = [NewPacket(FINGERPRINT_COMMANDPACKET, 0, <<>>)
                      EXCEPT !.length = L, !.data = [k \in 1..DataCap |-> 0]]
       /\ LET wl == WireLength(L) IN
            /\ wr = [i |-> LoopStart,
                     sum |-> SumAdd(SumAdd(wl \div 256, wl % 256), FINGERPRINT_COMMANDPACKET),
                     wire_length |-> wl,
                     dataBuffer |-> [k \in 1..LoopStart |-> 0]]
            /\ tx = <<StartHi, StartLo, 255, 255, 255, 255,
                      FINGERPRINT_COMMANDPACKET, wl \div 256, wl % 256>>
  /\ rd = ParserEntry
  /\ ret = None
  /\ cmd = NoCommand
  /\ result = None
  /\ sess = NewSession
  /\ hist = [NoHist EXCEPT !.orig = packet]

\* The loop, followed for the first EmitCap bytes.
WriteLoopCapped == Len(wr.dataBuffer) < EmitCap /\ WriteLoop

NextWriter == WriteLoopCapped \/ WriteTail

SpecWriter == InitWriter /\ [][NextWriter]_vars

(* ------------------------------------------------------------------ C29 *)

\* C29: the writer terminates for every packet length, lengths of 256 or more
\* included, and emits each payload byte exactly once: in the loop the index
\* is the number of bytes emitted, and no more bytes are emitted than the length.
C29_EachByteOnce ==
  /\ pc = "wr_loop" => wr.i = Len(wr.dataBuffer)
  /\ Len(wr.dataBuffer) <= packet.length

\* What holds instead: for a length of 256 or more the index stays below the
\* length, so the loop is never left.
C29_LongWriterNeverDone ==
  packet.length >= 256 => (pc = "wr_loop" /\ wr.i < packet.length)

\* For a length below 256 the claim holds.
C29_ShortWriterOnce == packet.length < 256 => C29_EachByteOnce

\* A packet of 255 bytes is written to its end.
C29_ShortWriterDone ==
  /\ pc = "wr_done"
  /\ packet.length = 256 - 1
  /\ Len(tx) = 11 + packet.length

(* ------------------------------------- the parser on a line that ends *)

\* Frames with and without junk, with a right and a wrong start code, declaring
\* 0 or MaxLen bytes and followed by MaxLen + 1; and the silent line.
LiveLines ==
  {<<>>} \cup {FrameBytes(j, lo, FINGERPRINT_ACKPACKET, L, MaxLen + 1) :
                 j \in {<<>>, <<0>>}, lo \in {StartLo, 0}, L \in {0, MaxLen}}

\* The timeout argument and the bytes the sensor sends: the small timeouts on
\* every line, the largest one on the shortest lines.
LiveInputs ==
  ({0, 1, TimeoutTicks} \X LiveLines) \cup ({65535} \X {<<>>, <<0>>})

InitLive ==
  /\ app = AppStart
  /\ buffUART = [k \in 0..(BuffSize - 1) |-> 0]
  /\ oob = 0
  /\ pe = 0
  /\ pl = 0
  /\ \E in \in LiveInputs :
       /\ rd = [ParserEntry EXCEPT !.timeout = in[1]]
       /\ line = in[2]
  /\ pc = "recv"
  /\ packet = NewPacket(FINGERPRINT_COMMANDPACKET, 1, <<1>>)
  /\ tx = <<>>
  /\ wr = NoWriter
  /\ ret = None
  /\ cmd = NoCommand
  /\ result = None
  /\ sess = NewSession
  /\ hist = NoHist

\* The main thread keeps running: the parser takes its next turn whenever it
\* has one. Nothing is asked of the line.
SpecLive == InitLive /\ [][NextParse]_vars /\ WF_vars(PollEmpty \/ ReadByte)

(* ------------------------------------------------------------------ C30 *)

\* C30: getStructuredPacket eventually returns when the sensor sends finitely
\* many bytes, whatever the timeout (0 and 65535 included) and whatever the
\* bytes, frames that declare length 0 included.
C30_ParserReturns == <>(pc = "parsed")

\* A frame declaring length 0: the bytes after it were read, then Timeout.
C30_Witness ==
  LET p == hist.popped IN
  /\ Returned(FINGERPRINT_TIMEOUT)
  /\ HeaderRead(p)
  /\ Declared(p) = 0
  /\ PostRead(p) = MaxLen + 1
  /\ line = <<>>

\* The largest timeout has run out, and the timeout 0 at the first empty poll.
C30_LongestTimeoutReached == Returned(FINGERPRINT_TIMEOUT) /\ rd.timeout = 65535 /\ rd.timer = 65535

C30_ZeroTimeoutReached == Returned(FINGERPRINT_TIMEOUT) /\ rd.timeout = 0 /\ rd.timer = 1

(* ------------------------------------------------- C31: the timeout budget *)

\* C31: the timeout of one getStructuredPacket invocation is cumulative. The
\* poll counter never goes down and never restarts when a byte is received; it
\* goes up by one exactly on a turn that finds the ring empty; and Timeout is
\* returned exactly on the empty poll that brings the counter to `timeout`.
C31_CumulativeTimeout ==
  [][
      /\ rd'.timer \in {rd.timer, rd.timer + 1}
      /\ (rd'.timer = rd.timer + 1) <=> (pc = "recv" /\ pl = pe /\ pl' = pl /\ pe' = pe)
      /\ (pc = "recv" /\ pc' = "parsed" /\ ret' = FINGERPRINT_TIMEOUT)
           <=> (rd'.timer = rd.timer + 1 /\ rd'.timer = rd.timeout)
    ]_vars

\* Timeout returned in the middle of a frame: bytes were read during the
\* invocation, more were still to come, and the counter stands at `timeout`.
C31_Witness ==
  /\ Returned(FINGERPRINT_TIMEOUT)
  /\ rd.timeout >= 2
  /\ rd.timer = rd.timeout
  /\ rd.idx >= 1
  /\ hist.popped # <<>>
  /\ line # <<>>

\* A wait that ended before the budget was spent: one empty poll is counted,
\* then the first byte arrives and waits in the ring to be read.
C31_SplitWait ==
  /\ pc = "recv"
  /\ rd.timer = 1
  /\ rd.timer < rd.timeout
  /\ hist.popped = <<>>
  /\ pl # pe

(* ------------------------------------- C32: request and response pairing *)

\* getImage has returned the communication error after a receive that timed
\* out before any byte of its answer was read; nothing empties the ring; the
\* next command is called, writes its request and enters getStructuredPacket.
CallAfterTimeout ==
  /\ pc = "returned"
  /\ cmd.name = "getImage"
  /\ ret = FINGERPRINT_TIMEOUT
  /\ rd.idx = 0
  /\ hist.popped = <<>>
  /\ cmd' = [name |-> "image2Tz", a |-> <<1>>]
  /\ packet' = NewPacket(FINGERPRINT_COMMANDPACKET, 2, <<Opcode.image2Tz, 1>>)
  /\ tx' = tx \o Frame(packet')
  /\ rd' = ParserEntry
  /\ ret' = None
  /\ result' = None
  /\ pc' = "recv"
  /\ UNCHANGED <<app, ringVars, line, wr, sess, hist>>

NextLate == receiveUART \/ PollEmpty \/ ReadByte \/ CommandReturn \/ CallAfterTimeout

\* The answer to getImage is late: it arrives whenever the line delivers it,
\* with the answer to the next command behind it.
SpecLate == InitResync /\ [][NextLate]_vars

\* The frame getStructuredPacket has just read is, byte for byte, the answer
\* to the earlier command.
EarlierAnswerRead == hist.popped \in AbandonedFrames

\* C32: the result a command returns comes from the frame that answers it: the
\* complete answer to an earlier, timed-out command is never accepted as the
\* response of the later command.
C32_Pairing ==
  (pc = "returned" /\ cmd.name = "image2Tz" /\ ~ReceiveFailed /\ FaithfulReads)
    => (~EarlierAnswerRead /\ NextAnswerParsed)

\* The later command gives up as well (its own answer is behind the stale one
\* and the line stalls inside the stale frame): nothing is accepted.
C32_LaterTimedOut ==
  /\ pc = "returned"
  /\ cmd.name = "image2Tz"
  /\ ret = FINGERPRINT_TIMEOUT
  /\ result = FINGERPRINT_PACKETRECIEVEERR

\* The stale answer accepted: the later command returns Ok having read, byte
\* for byte as pushed, the answer to the earlier command.
C32_StaleAccepted ==
  /\ pc = "returned"
  /\ cmd.name = "image2Tz"
  /\ ~ReceiveFailed
  /\ FaithfulReads
  /\ EarlierAnswerRead
  /\ result = FINGERPRINT_OK

(* --------------------------- C33: the request packet reused for the reply *)

\* Capacities the session state holds when a search is called: that of the
\* constructor, and one a getParameters call has read from a larger sensor.
Capacities == {64, 1000}

\* fingerSearch(slot) as the application may call it.
SearchCalls == {[name |-> "fingerSearch", a |-> <<s>>] : s \in {1, 2}}

InitReuse ==
  /\ app = AppStart
  /\ buffUART = [k \in 0..(BuffSize - 1) |-> 0]
  /\ oob = 0
  /\ pe = 0
  /\ pl = 0
  /\ line = <<>>
  /\ pc = "idle"
  /\ packet = NewPacket(0, 0, <<>>)
  /\ tx = <<>>
  /\ wr = NoWriter
  /\ rd = ParserEntry
  /\ ret = None
  /\ cmd = NoCommand
  /\ result = None
  /\ sess \in {[NewSession EXCEPT !.capacity = c] : c \in Capacities}
  /\ hist = NoHist

\* fingerSearch is entered: GET_CMD_PACKET builds the request packet, with the
\* slot and the capacity in it, and calls writeStructuredPacket.
CallSearch ==
  /\ pc = "idle"
  /\ \E c \in SearchCalls :
       /\ cmd' = c
       /\ packet' = NewPacket(FINGERPRINT_COMMANDPACKET, Len(Request(c)), Request(c))
       /\ hist' = [hist EXCEPT !.orig = packet', !.sess0 = sess]
  /\ pc' = "wr_hdr"
  /\ UNCHANGED <<app, ringVars, line, tx, wr, rd, ret, result, sess>>

NextReuse ==
  \/ CallSearch
  \/ WriteHeader
  \/ WriteLoop
  \/ WriteTail
  \/ AwaitReply
  \/ receiveUART
  \/ PollEmpty
  \/ ReadByte
  \/ CommandReturn

SpecReuse == InitReuse /\ [][NextReuse]_vars

\* The request of the run the others are compared with: fingerSearch(1) on a
\* session whose capacity is 64.
RefRequest == <<Opcode.fingerSearch, 1, 0, 0, Hi(64), Lo(64)>>

\* data[k] at the end of that run when it receives the frame this run received:
\* a byte of the frame below the declared length, a byte of its request above.
RefData(k) == IF k < packet.length THEN packet.data[k + 1] ELSE RefRequest[k + 1]

\* fingerSearch has returned after a well-formed acknowledgment.
SearchAnswered == pc = "returned" /\ cmd.name = "fingerSearch" /\ ~ReceiveFailed

\* C33: the status and the output fields depend only on the response frame.
\* Two runs that receive the same frame end with the same outputs whatever
\* their requests were: every run of fingerSearch ends with the status,
\* fingerID and confidence that the run calling fingerSearch(1) with capacity
\* 64 ends with on the same frame, short frames included.
C33_OutputsFromFrameOnly ==
  SearchAnswered =>
    /\ result = RefData(0)
    /\ sess.fingerID = RefData(1) * 256 + RefData(2)
    /\ sess.confidence = RefData(3) * 256 + RefData(4)

\* What holds of C33: a frame that declares at least the five bytes the
\* command extracts determines the outputs.
C33_FullFrameDetermines ==
  (SearchAnswered /\ packet.length >= 5) =>
    LET d == packet.data IN
    /\ result = d[1]
    /\ sess.fingerID = d[2] * 256 + d[3]
    /\ sess.confidence = d[4] * 256 + d[5]

C33_FullFrameReached == SearchAnswered /\ packet.length >= 5 /\ sess.capacity = 1000

\* The run the others are compared with, on a short frame.
C33_ReferenceRun ==
  /\ SearchAnswered
  /\ hist.orig.data = RefRequest
  /\ packet.length = 3
  /\ sess.confidence = 0

\* A byte of the request in an output: on a short frame confidence is made of
\* request bytes 3 and 4, the zero pad and the high byte of the capacity.
C33_RequestByteInOutput ==
  /\ SearchAnswered
  /\ packet.length = 3
  /\ sess.confidence = hist.orig.data[4] * 256 + hist.orig.data[5]
  /\ sess.confidence = Hi(sess.capacity)
  /\ sess.confidence # 0

(* ------------------------------ C34: query fields and the status byte *)

QueryCommands == {"getParameters", "getTemplateCount", "fingerSearch", "fingerFastSearch"}

\* A query has returned after a well-formed acknowledgment whose confirmation
\* code is not Ok.
QueryRefused ==
  /\ pc = "returned"
  /\ cmd.name \in QueryCommands
  /\ ~ReceiveFailed
  /\ packet.data[1] # FINGERPRINT_OK

\* C34: the query fields are refreshed only by a successful query: an
\* acknowledgment whose status byte is not Ok leaves every session-state field
\* at the value it had when the query was called.
C34_OnlyOkRefreshes == QueryRefused => Changed = {}

\* What holds of C34: a query whose receive failed leaves the fields alone.
C34_FailedReceiveKeeps ==
  (pc = "returned" /\ cmd.name \in QueryCommands /\ ReceiveFailed) => Changed = {}

C34_FailedReceiveReached ==
  pc = "returned" /\ cmd.name \in QueryCommands /\ ReceiveFailed /\ Changed = {}

\* getTemplateCount answered NotFound-coded (9) and templateCount overwritten
\* with payload bytes 1-2 all the same.
C34_RefusedOverwrites ==
  /\ QueryRefused
  /\ cmd.name = "getTemplateCount"
  /\ result = FINGERPRINT_NOTFOUND
  /\ Len(packet.data) >= 3
  /\ sess.templateCount = packet.data[2] * 256 + packet.data[3]
  /\ sess.templateCount # hist.sess0.templateCount

(* ------------------------------------------------------ the application *)

\* The variables of the driver, which the application model leaves alone: a
\* driver call is taken as a whole, by the status it returns.
driverVars == <<ringVars, line, pc, packet, tx, wr, rd, ret, cmdVars, hist>>

\* The keys the code-entry loop lets through (not '\0', 'C', 'D', 'E', 'F').
Keys == {"1", "A", "B"}

KeyCode(k) == CASE k = "1" -> 49 [] k = "A" -> 65 [] OTHER -> 66

\* Values a driver call returns to the application.
StatusBytes ==
  {FINGERPRINT_OK, FINGERPRINT_PACKETRECIEVEERR, FINGERPRINT_NOFINGER, FINGERPRINT_NOTFOUND}

\* Values fingerSearch leaves in finger.fingerID, a uint16_t.
FingerIDs == {1, 300}

\* Status codes the server answers with.
HttpCodes == {200, 401, 500}

\* Back at the top of the main loop: the locals of the iteration (code, indice)
\* and of getFingerprintEnroll (p) are gone.
LoopTop(a) ==
  [a EXCEPT !.at = "wait_init", !.code = <<"", "", "", "", "">>, !.indice = 0,
            !.stored = None, !.p = None]

\* setup() and the start of main up to the loop: the handler is attached to
\* the falling edge of the finger-detect pin; a sensor that does not verify the
\* password stops the program in the blink loop.
Setup ==
  /\ app.at = "boot"
  /\ \E verified \in BOOLEAN :
       app' = [app EXCEPT !.attached = TRUE,
                          !.at = IF verified THEN "wait_init" ELSE "halted"]
  /\ UNCHANGED driverVars

\* void fingerDetect(void), run on a falling edge while it is attached.
fingerDetect ==
  /\ app.attached
  /\ app.at \notin {"boot", "halted", "exited"}
  /\ app' = [app EXCEPT !.fingerON = TRUE]
  /\ UNCHANGED driverVars

\* The top of the main loop: wait_choice_key_falling(INIT_KEYS, 2); 'A' opens
\* the code entry with char code[5] = {} and indice = 0, 'B' the identification.
PressInit ==
  /\ app.at = "wait_init"
  /\ \E k \in {"A", "B"} :
       app' = IF k = "A"
                THEN [app EXCEPT !.at = "entry", !.code = <<"", "", "", "", "">>,
                                 !.indice = 0, !.stored = None]
                ELSE [app EXCEPT !.at = "ident"]
  /\ UNCHANGED driverVars

\* One turn of while (indice <= 5): a key is read, code[indice] = pressed,
\* indice += 1, and 'B' resets. The store at index 5 is past the array: it
\* leaves code as it is and either touches nothing the loop reads or lands on
\* indice, which then holds the key's character code.
KeyPress ==
  /\ app.at = "entry"
  /\ app.indice <= 5
  /\ \E k \in Keys :
       \E next \in (IF app.indice < 5 THEN {app.indice + 1} ELSE {app.indice + 1, KeyCode(k) + 1}) :
         LET a == [app EXCEPT !.code = IF app.indice < 5 THEN [@ EXCEPT ![app.indice + 1] = k] ELSE @,
                              !.stored = app.indice,
                              !.indice = next,
                              !.at = IF next <= 5 THEN "entry" ELSE "check"]
         IN app' = IF k = "B" THEN LoopTop(a) ELSE a
  /\ UNCHANGED driverVars

\* The code is posted to /api/check: any status but 200 goes back to the top; a
\* body without "message" ends main; a remaining count above 0 starts the
\* enrollment, 0 goes back to the top.
CheckCode ==
  /\ app.at = "check"
  /\ \E status \in HttpCodes, message \in BOOLEAN, remaining \in {0, 1} :
       LET a == [app EXCEPT !.post = [path |-> "/api/check", footprint |-> None]] IN
       app' = IF status # 200 THEN LoopTop(a)
              ELSE IF ~message THEN [a EXCEPT !.at = "exited"]
              ELSE IF remaining > 0 THEN [a EXCEPT !.at = "enroll"] ELSE LoopTop(a)
  /\ UNCHANGED driverVars

\* getFingerprintEnroll is entered: fD.fall(NULL) detaches the handler.
EnrollEnter ==
  /\ app.at = "enroll"
  /\ app' = [app EXCEPT !.attached = FALSE, !.p = None, !.at = "enroll_image1"]
  /\ UNCHANGED driverVars

\* while (p != FINGERPRINT_OK) p = finger.getImage(), first and second capture.
EnrollImage ==
  /\ app.at \in {"enroll_image1", "enroll_image2"}
  /\ \E r \in StatusBytes :
       app' = [app EXCEPT !.p = r,
                          !.at = IF r # FINGERPRINT_OK THEN @
                                 ELSE IF @ = "enroll_image1" THEN "enroll_tz1" ELSE "enroll_tz2"]
  /\ UNCHANGED driverVars

\* p = finger.image2Tz(1) and image2Tz(2): every status but Ok is returned.
EnrollConvert ==
  /\ app.at \in {"enroll_tz1", "enroll_tz2"}
  /\ \E r \in StatusBytes :
       app' = IF r = FINGERPRINT_OK
                THEN [app EXCEPT !.p = r,
                                 !.at = IF @ = "enroll_tz1" THEN "enroll_remove" ELSE "enroll_model"]
                ELSE [app EXCEPT !.p = r, !.c = r % 256, !.at = "register"]
  /\ UNCHANGED driverVars

\* while (p != FINGERPRINT_NOFINGER) p = finger.getImage().
EnrollRemove ==
  /\ app.at = "enroll_remove"
  /\ \E r \in StatusBytes :
       app' = [app EXCEPT !.p = r,
                          !.at = IF r = FINGERPRINT_NOFINGER THEN "enroll_image2" ELSE @]
  /\ UNCHANGED driverVars

\* p = finger.createModel(): every status but Ok is returned.
EnrollCreate ==
  /\ app.at = "enroll_model"
  /\ \E r \in StatusBytes :
       app' = IF r = FINGERPRINT_OK
                THEN [app EXCEPT !.p = r, !.at = "enroll_store"]
                ELSE [app EXCEPT !.p = r, !.c = r % 256, !.at = "register"]
  /\ UNCHANGED driverVars

\* p = finger.storeModel(id): every status but Ok is returned; after Ok,
\* fD.fall(&fingerDetect) and return id (1).
EnrollStore ==
  /\ app.at = "enroll_store"
  /\ \E r \in StatusBytes :
       app' = IF r = FINGERPRINT_OK
                THEN [app EXCEPT !.p = r, !.attached = TRUE, !.c = 1, !.at = "register"]
                ELSE [app EXCEPT !.p = r, !.c = r % 256, !.at = "register"]
  /\ UNCHANGED driverVars

\* Back in main: c is posted to /api/ident; after 200 a key other than 'A' is
\* awaited; every branch goes back to the top of the loop.
Register ==
  /\ app.at = "register"
  /\ \E status \in HttpCodes :
       app' = LoopTop([app EXCEPT !.post = [path |-> "/api/ident", footprint |-> app.c]])
  /\ UNCHANGED driverVars

\* uint8_t getFingerprintID(): the value returned when getImage, image2Tz and
\* fingerSearch return p1, p2, p3 and fingerSearch leaves fid in fingerID.
getFingerprintID(p1, p2, p3, fid) ==
  IF p1 # FINGERPRINT_OK THEN p1
  ELSE IF p2 # FINGERPRINT_OK THEN p2
  ELSE IF p3 # FINGERPRINT_OK THEN p3
  ELSE fid % 256

\* What a driver call returns, or None when the call before it did not return
\* Ok and it is not made.
After(prev, S) == IF prev = FINGERPRINT_OK THEN S ELSE {None}

\* while (scan_falling_char() != 'A') with 'A' pressed: back to the top.
LeaveIdent ==
  /\ app.at = "ident"
  /\ app' = [app EXCEPT !.at = "wait_init"]
  /\ UNCHANGED driverVars

\* One turn of the identification loop with fingerON set: id =
\* getFingerprintID(), fingerON = false, id posted to /api/sign; a status other
\* than 200 and 401 ends main.
Identify ==
  /\ app.at = "ident"
  /\ app.fingerON
  /\ \E p1 \in StatusBytes : \E p2 \in After(p1, StatusBytes) : \E p3 \in After(p2, StatusBytes) :
     \E fid \in After(p2, FingerIDs), status \in HttpCodes :
       app' = [app EXCEPT !.fingerON = FALSE,
                          !.matched = p3 = FINGERPRINT_OK,
                          !.found = fid,
                          !.post = [path |-> "/api/sign",
                                    footprint |-> getFingerprintID(p1, p2, p3, fid)],
                          !.at = IF status \in {200, 401} THEN "ident" ELSE "exited"]
  /\ UNCHANGED driverVars

NextApp ==
  \/ Setup
  \/ fingerDetect
  \/ PressInit
  \/ KeyPress
  \/ CheckCode
  \/ EnrollEnter
  \/ EnrollImage
  \/ EnrollConvert
  \/ EnrollRemove
  \/ EnrollCreate
  \/ EnrollStore
  \/ Register
  \/ LeaveIdent
  \/ Identify

SpecApp == Init /\ [][NextApp]_vars

(* ---------------------------------------- C35: the identification flow *)

\* C35: a sign-in request to /api/sign is sent only after getFingerprintID
\* obtained a match (fingerSearch returned Ok), and the footprint it carries is
\* the matched template id, never a status code.
C35_SignOnlyOnMatch ==
  app.post.path = "/api/sign" => (app.matched /\ app.post.footprint = app.found)

\* What holds of C35: after a match the footprint sent is the low byte of the
\* matched id.
C35_MatchSendsLowByte ==
  (app.post.path = "/api/sign" /\ app.matched) =>
    (app.found # None /\ app.post.footprint = app.found % 256)

C35_MatchSent == app.post.path = "/api/sign" /\ app.matched /\ app.post.footprint = 1

\* No finger on the sensor: getImage returned NoFinger, no search was made, and
\* the status code 2 was sent as the footprint.
C35_StatusSentAsId ==
  /\ app.post.path = "/api/sign"
  /\ ~app.matched
  /\ app.found = None
  /\ app.at = "ident"
  /\ app.post.footprint = FINGERPRINT_NOFINGER

(* -------------------------------------------- C36: the enrollment flow *)

\* C36: whenever getFingerprintEnroll has returned, on success or on an error,
\* the finger-detect handler is attached again.
C36_ReattachedOnReturn == app.at = "register" => app.attached

\* What holds of C36: the handler is detached throughout the enrollment, and
\* attached again when storeModel returned Ok.
C36_ReattachedOnSuccess ==
  /\ (app.at \in {"enroll_image1", "enroll_tz1", "enroll_remove", "enroll_image2",
                   "enroll_tz2", "enroll_model", "enroll_store"} => ~app.attached)
  /\ (app.at = "register" /\ app.p = FINGERPRINT_OK => app.attached)

C36_SuccessReached == app.at = "register" /\ app.p = FINGERPRINT_OK /\ app.attached

\* After a failed enrollment the identification loop runs with the handler
\* detached: no falling edge sets fingerON any more.
C36_IdentWithoutHandler == app.at = "ident" /\ ~app.attached /\ ~app.fingerON

(* ------------------------------------------- C37: the keypad code entry *)

\* C37: the index used to store an entered key is within the 5-element code
\* array, 0 <= index <= 4, for every sequence of key presses.
C37_IndexInBounds == app.stored # None => app.stored \in 0..4

\* What holds of C37: while the loop is running or has been left by 'B' before
\* a sixth key, the index used was in bounds; a completed entry has always
\* stored at index 5.
C37_SixthKeyOverruns ==
  /\ (app.at = "entry" /\ app.stored # None => app.stored \in 0..4)
  /\ (app.at = "check" => app.stored = 5)

C37_CompletedEntry == app.at = "check" /\ app.stored = 5 /\ app.code = <<"1", "1", "A", "1", "A">>

====
